---- MODULE Spec2Model ----
(***************************************************************************)
(* Model of the PDF processor Lambda (src/index.py): the handler           *)
(* lambda_handler, process_pdf_from_s3, extract_text_with_bounding_boxes   *)
(* and extract_all_graphics, with the Python values, the JSON text and the *)
(* external collaborators (S3, the PDF page source, the markdown step)     *)
(* they work on.                                                           *)
(***************************************************************************)
EXTENDS Integers, Sequences, FiniteSets, TLC

VARIABLES pc, event, world, response, fault, calls,
          doc, markdown, graphics_mode, extracted, graphics_primitives

vars == <<pc, event, world, response, fault, calls, doc, markdown, graphics_mode, extracted,
          graphics_primitives>>

-----------------------------------------------------------------------------
(* Python text.  A str is the sequence of its characters.                  *)

\* the characters of a text literal of the source
Str(x) == [i \in 1..Len(x) |-> SubSeq(x, i, i)]

Digit(n) ==
    CASE n = 0 -> "0" [] n = 1 -> "1" [] n = 2 -> "2" [] n = 3 -> "3"
      [] n = 4 -> "4" [] n = 5 -> "5" [] n = 6 -> "6" [] n = 7 -> "7"
      [] n = 8 -> "8" [] n = 9 -> "9"

Digits == {"0", "1", "2", "3", "4", "5", "6", "7", "8", "9"}

DigitVal(c) == CHOOSE n \in 0..9 : Digit(n) = c

Abs(n) == IF n < 0 THEN -n ELSE n

\* cs[a-1:b], the slice of the characters a..b that exist
Slice(cs, a, b) ==
    LET lo == IF a < 1 THEN 1 ELSE a
        hi == IF b > Len(cs) THEN Len(cs) ELSE b
    IN IF lo > hi THEN <<>> ELSE SubSeq(cs, lo, hi)

RECURSIVE Gcd(_, _)
Gcd(a, b) == IF b = 0 THEN a ELSE Gcd(b, a % b)

RECURSIVE IntRepr(_)
\* repr of a Python int
IntRepr(n) ==
    IF n < 0 THEN <<"-">> \o IntRepr(-n)
    ELSE IF n < 10 THEN <<Digit(n)>>
    ELSE IntRepr(n \div 10) \o <<Digit(n % 10)>>

RECURSIVE FracDigits(_, _, _)
FracDigits(r, d, k) ==
    LET q  == (r * 10) \div d
        r2 == (r * 10) % d
    IN <<Digit(q)>> \o (IF r2 = 0 \/ k = 1 THEN <<>> ELSE FracDigits(r2, d, k - 1))

\* repr of the Python float n/d (d > 0): "3.0", "0.75", "-0.25"
FloatRepr(n, d) ==
    (IF n < 0 THEN <<"-">> ELSE <<>>)
      \o IntRepr(Abs(n) \div d) \o <<".">> \o FracDigits(Abs(n) % d, d, 16)

-----------------------------------------------------------------------------
(* Python values: None, bool, int, float (an exact fraction n/d), str,     *)
(* list and dict (insertion-ordered key/value pairs).                      *)

PyNone     == [t |-> "NoneType", s |-> <<>>, n |-> 0, d |-> 1, e |-> <<>>]
PyBool(b)  == [t |-> "bool", s |-> <<>>, n |-> IF b THEN 1 ELSE 0, d |-> 1, e |-> <<>>]
PyInt(i)   == [t |-> "int", s |-> <<>>, n |-> i, d |-> 1, e |-> <<>>]
PyStr(cs)  == [t |-> "str", s |-> cs, n |-> 0, d |-> 1, e |-> <<>>]
PyList(xs) == [t |-> "list", s |-> <<>>, n |-> 0, d |-> 1, e |-> xs]
PyDict(ps) == [t |-> "dict", s |-> <<>>, n |-> 0, d |-> 1, e |-> ps]

\* float(n) / float(d) for d # 0, kept in lowest terms with a positive denominator
\* (the sign of a zero is not kept: the inputs divide no zero by a negative)
PyFloat(n, d) ==
    LET g  == Gcd(Abs(n), Abs(d))
        sg == IF d < 0 THEN -1 ELSE 1
    IN [t |-> "float", s |-> <<>>, n |-> sg * (n \div g), d |-> Abs(d) \div g, e |-> <<>>]

KV(k, v) == [k |-> Str(k), v |-> v]

\* bool(v)
Truthy(v) ==
    CASE v.t = "NoneType" -> FALSE
      [] v.t \in {"bool", "int", "float"} -> v.n # 0
      [] v.t = "str" -> v.s # <<>>
      [] OTHER -> v.e # <<>>

\* key in d, for a dict d
HasKey(v, k) == \E i \in 1..Len(v.e) : v.e[i].k = k

\* d[key], for a dict d that has the key
Item(v, k) == v.e[CHOOSE i \in 1..Len(v.e) : v.e[i].k = k].v

\* d.get(key, default)
Get(v, k, default) == IF HasKey(v, k) THEN Item(v, k) ELSE default

\* d[key] = value: a new key is appended, an old one keeps its place
Put(ps, k, x) ==
    IF \E i \in 1..Len(ps) : ps[i].k = k
    THEN [i \in 1..Len(ps) |-> IF ps[i].k = k THEN [k |-> k, v |-> x] ELSE ps[i]]
    ELSE Append(ps, [k |-> k, v |-> x])

IsSubstring(a, b) ==
    \E i \in 0..(Len(b) - Len(a)) : Slice(b, i + 1, i + Len(a)) = a

-----------------------------------------------------------------------------
(* json.dumps and json.loads on the values above.  The texts of this model *)
(* hold no quote, backslash or control character, so no escape is needed.  *)

RECURSIVE json_dumps(_)
RECURSIVE dumps_items(_)
RECURSIVE dumps_members(_)

\* json.dumps(v) with the default separators ", " and ": "
json_dumps(v) ==
    CASE v.t = "NoneType" -> <<"n", "u", "l", "l">>
      [] v.t = "bool" -> IF v.n = 1 THEN <<"t", "r", "u", "e">>
                                    ELSE <<"f", "a", "l", "s", "e">>
      [] v.t = "int" -> IntRepr(v.n)
      [] v.t = "float" -> FloatRepr(v.n, v.d)
      [] v.t = "str" -> <<"\"">> \o v.s \o <<"\"">>
      [] v.t = "list" -> <<"[">> \o dumps_items(v.e) \o <<"]">>
      [] v.t = "dict" -> <<"{">> \o dumps_members(v.e) \o <<"}">>

dumps_items(xs) ==
    IF xs = <<>> THEN <<>>
    ELSE json_dumps(xs[1])
           \o (IF Len(xs) > 1 THEN <<",", " ">> \o dumps_items(Tail(xs)) ELSE <<>>)

dumps_members(ps) ==
    IF ps = <<>> THEN <<>>
    ELSE <<"\"">> \o ps[1].k \o <<"\"", ":", " ">> \o json_dumps(ps[1].v)
           \o (IF Len(ps) > 1 THEN <<",", " ">> \o dumps_members(Tail(ps)) ELSE <<>>)

\* the decoder's error: JSONDecodeError(msg, doc, pos), i the index pos + 1
ParseFail(msg, i) == [ok |-> FALSE, v |-> PyNone, i |-> i, msg |-> msg]
Parsed(v, i) == [ok |-> TRUE, v |-> v, i |-> i, msg |-> ""]

At(cs, i) == IF i >= 1 /\ i <= Len(cs) THEN cs[i] ELSE ""

RECURSIVE SkipWs(_, _)
SkipWs(cs, i) == IF At(cs, i) \in {" ", "\t", "\n", "\r"} THEN SkipWs(cs, i + 1) ELSE i

RECURSIVE DigitRunEnd(_, _)
\* the last index of the run of digits that starts at i (cs[i] is a digit)
DigitRunEnd(cs, i) == IF At(cs, i + 1) \in Digits THEN DigitRunEnd(cs, i + 1) ELSE i

RECURSIVE DigitsValue(_, _, _)
DigitsValue(cs, a, b) ==
    IF a > b THEN 0 ELSE DigitsValue(cs, a, b - 1) * 10 + DigitVal(cs[b])

RECURSIVE Pow10(_)
Pow10(k) == IF k = 0 THEN 1 ELSE 10 * Pow10(k - 1)

\* the decoder's number: -?(0|[1-9][0-9]*)(\.[0-9]+)?
ParseNumber(cs, i) ==
    LET neg == At(cs, i) = "-"
        a   == IF neg THEN i + 1 ELSE i
    IN IF At(cs, a) \notin Digits THEN ParseFail("Expecting value", i)
       ELSE LET b    == IF cs[a] = "0" THEN a ELSE DigitRunEnd(cs, a)
                ip   == DigitsValue(cs, a, b)
                frac == At(cs, b + 1) = "." /\ At(cs, b + 2) \in Digits
                c    == IF frac THEN DigitRunEnd(cs, b + 2) ELSE b
                fp   == IF frac THEN DigitsValue(cs, b + 2, c) ELSE 0
                den  == Pow10(c - b - 1)
                sg   == IF neg THEN -1 ELSE 1
            IN IF frac THEN Parsed(PyFloat(sg * (ip * den + fp), den), c + 1)
                       ELSE Parsed(PyInt(sg * ip), b + 1)

\* a string literal whose opening quote is at i
ParseString(cs, i) ==
    LET js == {j \in (i + 1)..Len(cs) : cs[j] = "\""}
    IN IF js = {} THEN ParseFail("Unterminated string starting at", i)
       ELSE LET j == CHOOSE x \in js : \A y \in js : x <= y
            IN Parsed(PyStr(Slice(cs, i + 1, j - 1)), j + 1)

Literal(cs, i, word) == Slice(cs, i, i + Len(word) - 1) = word

RECURSIVE ParseValue(_, _)
RECURSIVE ParseMembers(_, _, _)
RECURSIVE ParseItems(_, _, _)

\* one JSON value starting at i (white space already skipped)
ParseValue(cs, i) ==
    LET c == At(cs, i)
    IN CASE c = "\"" -> ParseString(cs, i)
         [] c = "{" ->
              LET j == SkipWs(cs, i + 1)
              IN IF At(cs, j) = "}" THEN Parsed(PyDict(<<>>), j + 1)
                 ELSE ParseMembers(cs, j, <<>>)
         [] c = "[" ->
              LET j == SkipWs(cs, i + 1)
              IN IF At(cs, j) = "]" THEN Parsed(PyList(<<>>), j + 1)
                 ELSE ParseItems(cs, j, <<>>)
         [] c = "n" /\ Literal(cs, i, <<"n", "u", "l", "l">>) -> Parsed(PyNone, i + 4)
         [] c = "t" /\ Literal(cs, i, <<"t", "r", "u", "e">>) -> Parsed(PyBool(TRUE), i + 4)
         [] c = "f" /\ Literal(cs, i, <<"f", "a", "l", "s", "e">>) ->
              Parsed(PyBool(FALSE), i + 5)
         [] c = "-" \/ c \in Digits -> ParseNumber(cs, i)
         [] OTHER -> ParseFail("Expecting value", i)

\* the members of an object from the key at i on, acc the pairs read so far
ParseMembers(cs, i, acc) ==
    IF At(cs, i) # "\""
    THEN ParseFail("Expecting property name enclosed in double quotes", i)
    ELSE LET key == ParseString(cs, i)
         IN IF ~key.ok THEN key
            ELSE LET j == SkipWs(cs, key.i)
                 IN IF At(cs, j) # ":" THEN ParseFail("Expecting ':' delimiter", j)
                    ELSE LET val == ParseValue(cs, SkipWs(cs, j + 1))
                         IN IF ~val.ok THEN val
                            ELSE LET m    == SkipWs(cs, val.i)
                                     acc2 == Put(acc, key.v.s, val.v)
                                 IN CASE At(cs, m) = "}" -> Parsed(PyDict(acc2), m + 1)
                                      [] At(cs, m) = "," ->
                                           ParseMembers(cs, SkipWs(cs, m + 1), acc2)
                                      [] OTHER -> ParseFail("Expecting ',' delimiter", m)

\* the items of an array from the value at i on
ParseItems(cs, i, acc) ==
    LET val == ParseValue(cs, i)
    IN IF ~val.ok THEN val
       ELSE LET m    == SkipWs(cs, val.i)
                acc2 == Append(acc, val.v)
            IN CASE At(cs, m) = "]" -> Parsed(PyList(acc2), m + 1)
                 [] At(cs, m) = "," -> ParseItems(cs, SkipWs(cs, m + 1), acc2)
                 [] OTHER -> ParseFail("Expecting ',' delimiter", m)

NoExc == [type |-> "", msg |-> ""]
Exc(type, msg) == [type |-> type, msg |-> msg]

\* json.loads(v): TypeError unless v is a str, JSONDecodeError unless the whole
\* text is one JSON value
RECURSIVE Text(_)
\* the string of a sequence of characters
Text(cs) == IF cs = <<>> THEN "" ELSE cs[1] \o Text(Tail(cs))

\* type(v).__name__
TypeName(v) == v.t

\* JSONDecodeError(msg, doc, pos) for the character at index i = pos + 1: its
\* message is "msg: line L column C (char pos)"
JSONDecodeError(msg, cs, i) ==
    LET nls == {k \in 1..(i - 1) : cs[k] = "\n"}
        last == IF nls = {} THEN 0 ELSE CHOOSE k \in nls : \A y \in nls : y <= k
    IN Exc("JSONDecodeError",
           msg \o ": line " \o Text(IntRepr(Cardinality(nls) + 1))
               \o " column " \o Text(IntRepr(i - last))
               \o " (char " \o Text(IntRepr(i - 1)) \o ")")

\* the end of json.loads: the value r read, then only white space
Decoded(cs, r) ==
    IF ~r.ok THEN [exc |-> JSONDecodeError(r.msg, cs, r.i), v |-> PyNone]
    ELSE IF SkipWs(cs, r.i) # Len(cs) + 1
    THEN [exc |-> JSONDecodeError("Extra data", cs, SkipWs(cs, r.i)), v |-> PyNone]
    ELSE [exc |-> NoExc, v |-> r.v]

\* json.loads(v): TypeError unless v is a str, JSONDecodeError unless the whole
\* text is one JSON value
json_loads(v) ==
    IF v.t # "str"
    THEN [exc |-> Exc("TypeError", "the JSON object must be str, bytes or bytearray, not "
                                   \o TypeName(v)),
          v |-> PyNone]
    ELSE Decoded(v.s, ParseValue(v.s, SkipWs(v.s, 1)))

-----------------------------------------------------------------------------
(* The page source.  A document is a sequence of pages; a page has its     *)
(* rect's width and height, the tuples of get_text("words") and the groups *)
(* of get_drawings().  Coordinates are floats with integral values.        *)

Raised(exc) == [exc |-> exc, v |-> <<>>]
Returned(v) == [exc |-> NoExc, v |-> v]

\* one pass of a loop that appends the value of h, then the rest r of the loop:
\* the first exception ends the loop
Prepend(h, r) ==
    IF h.exc # NoExc THEN Raised(h.exc)
    ELSE IF r.exc # NoExc THEN Raised(r.exc)
    ELSE Returned(<<h.v>> \o r.v)

\* one pass of a loop that appends every value of h, then the rest r of the loop
Extend(h, r) ==
    IF h.exc # NoExc THEN Raised(h.exc)
    ELSE IF r.exc # NoExc THEN Raised(r.exc)
    ELSE Returned(h.v \o r.v)

\* float(a) / float(b)
Div(a, b) ==
    IF b = 0 THEN [exc |-> Exc("ZeroDivisionError", "float division by zero"), v |-> PyNone]
    ELSE [exc |-> NoExc, v |-> PyFloat(a, b)]

\* {"x": .., "y": .., "x_norm": x / page_width, "y_norm": y / page_height}
PointDict(p, page_width, page_height) ==
    LET xn == Div(p.x, page_width)
        yn == Div(p.y, page_height)
    IN IF xn.exc # NoExc THEN Raised(xn.exc)
       ELSE IF yn.exc # NoExc THEN Raised(yn.exc)
       ELSE Returned(PyDict(<<KV("x", PyFloat(p.x, 1)), KV("y", PyFloat(p.y, 1)),
                              KV("x_norm", xn.v), KV("y_norm", yn.v)>>))

RECURSIVE PointDicts(_, _, _)
\* the point dicts of a primitive, in order; the first failing division raises
PointDicts(ps, page_width, page_height) ==
    IF ps = <<>> THEN Returned(<<>>)
    ELSE Prepend(PointDict(ps[1], page_width, page_height),
                 PointDicts(Tail(ps), page_width, page_height))

\* {"x0", "y0", "x1", "y1", "x0_norm", "y0_norm", "x1_norm", "y1_norm"} of a rect
RectDict(ps, page_width, page_height) ==
    LET x0n == Div(ps[1].x, page_width)
        y0n == Div(ps[1].y, page_height)
        x1n == Div(ps[2].x, page_width)
        y1n == Div(ps[2].y, page_height)
    IN IF x0n.exc # NoExc THEN Raised(x0n.exc)
       ELSE IF y0n.exc # NoExc THEN Raised(y0n.exc)
       ELSE Returned(PyDict(<<KV("x0", PyFloat(ps[1].x, 1)), KV("y0", PyFloat(ps[1].y, 1)),
                              KV("x1", PyFloat(ps[2].x, 1)), KV("y1", PyFloat(ps[2].y, 1)),
                              KV("x0_norm", x0n.v), KV("y0_norm", y0n.v),
                              KV("x1_norm", x1n.v), KV("y1_norm", y1n.v)>>))

\* d.get(key, default) on a drawing group of get_drawings()
GroupGet(d, key, default) == IF key \in d.keys THEN d[key] ELSE default

\* the style entries with the stroke width left at its default
StyleOf_m(d) ==
    LET color == GroupGet(d, "color", PyNone)
        fill  == GroupGet(d, "fill", PyNone)
    IN <<KV("stroke_width", PyFloat(0, 1)),
         KV("stroke_color", IF Truthy(color) THEN PyList(color.e) ELSE PyNone),
         KV("fill_color", IF Truthy(fill) THEN PyList(fill.e) ELSE PyNone)>>

\* the style entries every primitive of group d carries
StyleOf(d) ==
    LET w     == GroupGet(d, "width", PyFloat(0, 1))
        color == GroupGet(d, "color", PyNone)
        fill  == GroupGet(d, "fill", PyNone)
    IN <<KV("stroke_width", IF Truthy(w) THEN PyFloat(w.n, w.d) ELSE PyFloat(0, 1)),
         KV("stroke_color", IF Truthy(color) THEN PyList(color.e) ELSE PyNone),
         KV("fill_color", IF Truthy(fill) THEN PyList(fill.e) ELSE PyNone)>>

\* the primitives one item appends: one for a recognized operator, none otherwise
PrimitiveOf(item, style, page_width, page_height) ==
    CASE item.op = "l" ->
           LET ps == PointDicts(item.p, page_width, page_height)
           IN IF ps.exc # NoExc THEN Raised(ps.exc)
              ELSE Returned(<<PyDict(<<KV("type", PyStr(Str("line"))),
                                       KV("p1", ps.v[1]), KV("p2", ps.v[2])>> \o style)>>)
      [] item.op = "c" ->
           LET ps == PointDicts(item.p, page_width, page_height)
           IN IF ps.exc # NoExc THEN Raised(ps.exc)
              ELSE Returned(<<PyDict(<<KV("type", PyStr(Str("curve"))),
                                       KV("p1", ps.v[1]), KV("p2", ps.v[2]),
                                       KV("p3", ps.v[3]), KV("p4", ps.v[4])>> \o style)>>)
      [] item.op = "re" ->
           LET r == RectDict(item.p, page_width, page_height)
           IN IF r.exc # NoExc THEN Raised(r.exc)
              ELSE Returned(<<PyDict(<<KV("type", PyStr(Str("rect"))),
                                       KV("bbox", r.v)>> \o style)>>)
      [] item.op = "qu" ->
           LET ps == PointDicts(item.p, page_width, page_height)
           IN IF ps.exc # NoExc THEN Raised(ps.exc)
              ELSE Returned(<<PyDict(<<KV("type", PyStr(Str("quad"))),
                                       KV("points", PyList(ps.v))>> \o style)>>)
      [] OTHER -> Returned(<<>>)

RECURSIVE ItemsLoop(_, _, _, _)
\* for item in items: the primitives appended, or the first exception
ItemsLoop(items, style, page_width, page_height) ==
    IF items = <<>> THEN Returned(<<>>)
    ELSE Extend(PrimitiveOf(items[1], style, page_width, page_height),
                ItemsLoop(Tail(items), style, page_width, page_height))

RECURSIVE DrawingsLoop(_, _, _)
\* for d in drawings
DrawingsLoop(drawings, page_width, page_height) ==
    IF drawings = <<>> THEN Returned(<<>>)
    ELSE LET d == drawings[1]
         IN Extend(ItemsLoop(GroupGet(d, "items", <<>>), StyleOf(d),
                             page_width, page_height),
                   DrawingsLoop(Tail(drawings), page_width, page_height))

\* extract_all_graphics(page, page_width, page_height): the list of primitives,
\* or the exception it raises
extract_all_graphics(page, page_width, page_height) ==
    DrawingsLoop(page.drawings, page_width, page_height)

-----------------------------------------------------------------------------
(* extract_text_with_bounding_boxes                                        *)

RECURSIVE LStrip(_)
LStrip(cs) == IF cs # <<>> /\ cs[1] = " " THEN LStrip(Tail(cs)) ELSE cs

RECURSIVE RStrip(_)
RStrip(cs) ==
    IF cs # <<>> /\ cs[Len(cs)] = " " THEN RStrip(Slice(cs, 1, Len(cs) - 1)) ELSE cs

\* str.strip()
Strip(cs) == RStrip(LStrip(cs))

\* PageData(...)
PageData(metadata, toc_items, tables, images, graphics, text, words) ==
    [metadata |-> metadata, toc_items |-> toc_items, tables |-> tables,
     images |-> images, graphics |-> graphics, text |-> text, words |-> words]

\* the PageData built from one chunk of pymupdf4llm.to_markdown(page_chunks=True)
ChunkPageData(page_chunk) ==
    LET page_markdown == Get(page_chunk, Str("text"), PyStr(<<>>))
        page_metadata == Get(page_chunk, Str("metadata"), PyDict(<<>>))
        page_tables   == Get(page_chunk, Str("tables"), PyList(<<>>))
    IN IF page_markdown.t # "str"
       THEN Raised(Exc("AttributeError",
                         "'" \o TypeName(page_markdown) \o "' object has no attribute 'strip'"))
       ELSE Returned(PageData(page_metadata, <<>>, page_tables, <<>>, <<>>,
                              Strip(page_markdown.s), <<>>))

RECURSIVE ChunksLoop(_)
\* for page_chunk in page_chunks
ChunksLoop(page_chunks) ==
    IF page_chunks = <<>> THEN Returned(<<>>)
    ELSE Prepend(ChunkPageData(page_chunks[1]), ChunksLoop(Tail(page_chunks)))

\* the WordBoundingBox of one tuple of page.get_text("words")
WordBox(word_info, page_num, page_width, page_height) ==
    LET x0n == Div(word_info.x0, page_width)
        y0n == Div(word_info.y0, page_height)
        x1n == Div(word_info.x1, page_width)
        y1n == Div(word_info.y1, page_height)
    IN IF x0n.exc # NoExc THEN Raised(x0n.exc)
       ELSE IF y0n.exc # NoExc THEN Raised(y0n.exc)
       ELSE Returned(
         [page |-> page_num + 1,
          text |-> word_info.text,
          bbox |-> PyDict(<<KV("x0", x0n.v), KV("y0", y0n.v),
                            KV("x1", x1n.v), KV("y1", y1n.v)>>),
          absolute_bbox |-> PyDict(<<KV("x0", PyFloat(word_info.x0, 1)),
                                     KV("y0", PyFloat(word_info.y0, 1)),
                                     KV("x1", PyFloat(word_info.x1, 1)),
                                     KV("y1", PyFloat(word_info.y1, 1))>>),
          page_dimensions |-> PyDict(<<KV("width", PyFloat(page_width, 1)),
                                       KV("height", PyFloat(page_height, 1))>>),
          block_no |-> word_info.block_no,
          line_no |-> word_info.line_no,
          word_no |-> word_info.word_no])

RECURSIVE WordsLoop(_, _, _, _)
\* for word_info in words
WordsLoop(words, page_num, page_width, page_height) ==
    IF words = <<>> THEN Returned(<<>>)
    ELSE Prepend(WordBox(words[1], page_num, page_width, page_height),
                 WordsLoop(Tail(words), page_num, page_width, page_height))

RECURSIVE WordPagesLoop(_, _)
\* for page_num in range(len(pdf_document)), from page_num on: the word boxes
WordPagesLoop(pdf_document, page_num) ==
    IF page_num >= Len(pdf_document) THEN Returned(<<>>)
    ELSE LET page == pdf_document[page_num + 1]
         IN Extend(WordsLoop(page.words, page_num, page.width, page.height),
                   WordPagesLoop(pdf_document, page_num + 1))

\* the graphics of one page put on the page records built so far: a minimal
\* record appended in 'graphics_only', else the record of that index, when there
\* is one, gets the graphics
AttachGraphics(pages, mode, page_num, graphics) ==
    IF mode = PyStr(Str("graphics_only"))
    THEN Append(pages, PageData(PyDict(<<>>), <<>>, PyList(<<>>), <<>>,
                                graphics, <<>>, <<>>))
    ELSE IF page_num < Len(pages)
    THEN [pages EXCEPT ![page_num + 1].graphics = graphics]
    ELSE pages

RECURSIVE GraphicsPagesLoop(_, _, _, _)
RECURSIVE GraphicsPass(_, _, _, _, _)

\* the graphics loop from page_num on, over the page records built so far; drawn
\* counts the calls of page.get_drawings()
GraphicsPagesLoop(pdf_document, mode, page_num, acc) ==
    IF page_num >= Len(pdf_document)
    THEN [exc |-> NoExc, v |-> acc.pages, drawn |-> acc.drawn]
    ELSE LET page == pdf_document[page_num + 1]
         IN GraphicsPass(pdf_document, mode, page_num, acc,
                         extract_all_graphics(page, page.width, page.height))

\* one pass of the graphics loop, g the outcome of extract_all_graphics on the page
GraphicsPass(pdf_document, mode, page_num, acc, g) ==
    IF g.exc # NoExc
    THEN [exc |-> g.exc, v |-> <<>>, drawn |-> acc.drawn + 1]
    ELSE GraphicsPagesLoop(pdf_document, mode, page_num + 1,
                           [pages |-> AttachGraphics(acc.pages, mode, page_num, g.v),
                            drawn |-> acc.drawn + 1])

\* the text block entered in every mode
WantsText_m(mode) == TRUE

\* the graphics block entered in every mode
WantsGraphics_m(mode) == TRUE

\* if graphics_mode != 'graphics_only'
WantsText(mode) == mode # PyStr(Str("graphics_only"))

\* if graphics_mode in ['full', 'graphics_only']
WantsGraphics(mode) == mode \in {PyStr(Str("full")), PyStr(Str("graphics_only"))}

\* extract_text_with_bounding_boxes(pdf_document, pdf_data, graphics_mode), with
\* to_markdown the outcome of pymupdf4llm.to_markdown on the document: the pair
\* (word_bounding_boxes, structured_page_data) or the exception raised, and the
\* number of get_drawings() calls made
extract_text_with_bounding_boxes(pdf_document, to_markdown, mode) ==
    LET text_part ==
          IF WantsText(mode)
          THEN IF to_markdown.exc # NoExc
               THEN [exc |-> to_markdown.exc, pages |-> <<>>, words |-> <<>>]
               ELSE LET cs == ChunksLoop(to_markdown.v)
                    IN IF cs.exc # NoExc
                       THEN [exc |-> cs.exc, pages |-> <<>>, words |-> <<>>]
                       ELSE LET ws == WordPagesLoop(pdf_document, 0)
                            IN [exc |-> ws.exc, pages |-> cs.v, words |-> ws.v]
          ELSE [exc |-> NoExc, pages |-> <<>>, words |-> <<>>]
    IN IF text_part.exc # NoExc
       THEN [exc |-> text_part.exc, word_bounding_boxes |-> <<>>,
             structured_page_data |-> <<>>, drawn |-> 0]
       ELSE IF WantsGraphics(mode)
       THEN LET g == GraphicsPagesLoop(pdf_document, mode, 0,
                                       [pages |-> text_part.pages, drawn |-> 0])
            IN IF g.exc # NoExc
               THEN [exc |-> g.exc, word_bounding_boxes |-> <<>>,
                     structured_page_data |-> <<>>, drawn |-> g.drawn]
               ELSE [exc |-> NoExc, word_bounding_boxes |-> text_part.words,
                     structured_page_data |-> g.v, drawn |-> g.drawn]
       ELSE [exc |-> NoExc, word_bounding_boxes |-> text_part.words,
             structured_page_data |-> text_part.pages, drawn |-> 0]

-----------------------------------------------------------------------------
(* The response types' to_dict methods                                     *)

\* WordBoundingBox.to_dict
WordBoundingBox_to_dict(wb) ==
    PyDict(<<KV("page", PyInt(wb.page)), KV("text", PyStr(wb.text)),
             KV("bbox", wb.bbox), KV("absolute_bbox", wb.absolute_bbox),
             KV("page_dimensions", wb.page_dimensions),
             KV("block_no", PyInt(wb.block_no)), KV("line_no", PyInt(wb.line_no)),
             KV("word_no", PyInt(wb.word_no))>>)

\* PageData.to_dict
PageData_to_dict(pd) ==
    PyDict(<<KV("metadata", pd.metadata), KV("toc_items", PyList(pd.toc_items)),
             KV("tables", pd.tables), KV("images", PyList(pd.images)),
             KV("graphics", PyList(pd.graphics)), KV("text", PyStr(pd.text)),
             KV("words", PyList(pd.words))>>)

\* str(metadata.get(key, "") or "")
MetaStr(metadata, key) ==
    LET x == Get(metadata, Str(key), PyStr(<<>>))
    IN IF Truthy(x) /\ x.t = "str" THEN x ELSE PyStr(<<>>)

\* DocumentInfo(...).to_dict()
DocumentInfo_to_dict(page_count, file_size, metadata) ==
    PyDict(<<KV("page_count", PyInt(page_count)), KV("file_size", PyInt(file_size)),
             KV("title", MetaStr(metadata, "title")),
             KV("author", MetaStr(metadata, "author")),
             KV("subject", MetaStr(metadata, "subject")),
             KV("creator", MetaStr(metadata, "creator"))>>)

\* PDFProcessingResponse(success=True, ...).to_dict(): error and error_type are None
PDFProcessingResponse_to_dict(document_info, word_bounding_boxes, structured_data) ==
    PyDict(<<KV("success", PyBool(TRUE)),
             KV("document_info", document_info),
             KV("word_bounding_boxes",
                PyList([i \in 1..Len(word_bounding_boxes) |->
                          WordBoundingBox_to_dict(word_bounding_boxes[i])])),
             KV("word_count", PyInt(Len(word_bounding_boxes))),
             KV("structured_data",
                PyList([i \in 1..Len(structured_data) |->
                          PageData_to_dict(structured_data[i])]))>>)

\* {"success": False, "error": str(e), "error_type": type(e).__name__}
ErrorDict(exc) ==
    PyDict(<<KV("success", PyBool(FALSE)), KV("error", PyStr(Str(exc.msg))),
             KV("error_type", PyStr(Str(exc.type)))>>)

-----------------------------------------------------------------------------
(* process_pdf_from_s3.  The world of one invocation: what S3 answers, the *)
(* size of the object, whether fitz opens it, the document it holds, its   *)
(* metadata and what the markdown step returns for it.                     *)

\* s3_client.get_object(Bucket=bucket, Key=key): the client refuses an empty
\* bucket or key before any request, else S3 answers
get_object(bucket, key, w) ==
    IF bucket = <<>> \/ key = <<>>
    THEN Exc("ParamValidationError", "Parameter validation failed")
    ELSE w.fetch

\* what process_pdf_from_s3 returns once the extraction step has answered x: the
\* success dict, or the error dict of its except clause
Processed(w, x) ==
    [result |->
       IF x.exc # NoExc THEN ErrorDict(x.exc)
       ELSE PDFProcessingResponse_to_dict(
                DocumentInfo_to_dict(Len(w.doc), w.file_size, w.metadata),
                x.word_bounding_boxes, x.structured_page_data),
     extraction |-> [ran |-> TRUE, exc |-> x.exc,
                     word_bounding_boxes |-> x.word_bounding_boxes,
                     structured_page_data |-> x.structured_page_data,
                     drawn |-> x.drawn]]

\* process_pdf_from_s3(bucket, key, graphics_mode): the dict it returns, with the
\* outcome of the extraction step (ran is FALSE when the step was not reached)
process_pdf_from_s3(bucket, key, mode, w) ==
    LET got == get_object(bucket, key, w)
        not_run == [ran |-> FALSE, exc |-> NoExc, word_bounding_boxes |-> <<>>,
                    structured_page_data |-> <<>>, drawn |-> 0]
    IN IF got # NoExc THEN [result |-> ErrorDict(got), extraction |-> not_run]
       ELSE IF w.open # NoExc THEN [result |-> ErrorDict(w.open), extraction |-> not_run]
       ELSE Processed(w, extract_text_with_bounding_boxes(w.doc, w.to_markdown, mode))

-----------------------------------------------------------------------------
(* lambda_handler                                                          *)

\* key in v
In(key, v) ==
    CASE v.t = "dict" -> [exc |-> NoExc, v |-> HasKey(v, key)]
      [] v.t = "list" -> [exc |-> NoExc, v |-> \E i \in 1..Len(v.e) : v.e[i] = PyStr(key)]
      [] v.t = "str" -> [exc |-> NoExc, v |-> IsSubstring(key, v.s)]
      [] OTHER -> [exc |-> Exc("TypeError", "argument of type '" \o TypeName(v)
                                            \o "' is not iterable"),
                   v |-> FALSE]

\* v[key] for a str key
Subscript(v, key) ==
    CASE v.t = "dict" ->
           IF HasKey(v, key) THEN [exc |-> NoExc, v |-> Item(v, key)]
           ELSE [exc |-> Exc("KeyError", "'" \o Text(key) \o "'"), v |-> PyNone]
      [] v.t = "list" ->
           [exc |-> Exc("TypeError", "list indices must be integers or slices, not str"),
            v |-> PyNone]
      [] v.t = "str" ->
           [exc |-> Exc("TypeError", "string indices must be integers, not 'str'"),
            v |-> PyNone]
      [] OTHER -> [exc |-> Exc("TypeError", "'" \o TypeName(v)
                                            \o "' object is not subscriptable"),
                   v |-> PyNone]

\* v.get(key, default): only a dict has get
DictGet(v, key, default) ==
    IF v.t = "dict" THEN [exc |-> NoExc, v |-> Get(v, key, default)]
    ELSE [exc |-> Exc("AttributeError", "'" \o TypeName(v)
                                        \o "' object has no attribute 'get'"),
          v |-> PyNone]

\* s3_path[5:].split('/', 1)
SplitPath(cs) ==
    LET rest == Slice(cs, 6, Len(cs))
        js   == {j \in 1..Len(rest) : rest[j] = "/"}
    IN IF js = {} THEN <<rest>>
       ELSE LET j == CHOOSE x \in js : \A y \in js : x <= y
            IN <<Slice(rest, 1, j - 1), Slice(rest, j + 1, Len(rest))>>

StartsWith(cs, prefix) == Slice(cs, 1, Len(prefix)) = prefix /\ Len(cs) >= Len(prefix)

ValidModes == {PyStr(Str("none")), PyStr(Str("full")), PyStr(Str("graphics_only"))}

\* {'statusCode': 400, 'body': json.dumps({'error': .., 'expected_format': ..})}
FormatError(msg) ==
    PyDict(<<KV("statusCode", PyInt(400)),
             KV("body", PyStr(json_dumps(PyDict(
                 <<KV("error", PyStr(Str(msg))),
                   KV("expected_format",
                      PyStr(Str("s3://bucket-name/path/to/file.pdf")))>>))))>>)

\* the 400 response for a graphics_mode outside the closed set
ModeError ==
    PyDict(<<KV("statusCode", PyInt(400)),
             KV("body", PyStr(json_dumps(PyDict(
                 <<KV("error", PyStr(Str("Invalid graphics_mode parameter"))),
                   KV("valid_values",
                      PyList(<<PyStr(Str("none")), PyStr(Str("full")),
                               PyStr(Str("graphics_only"))>>))>>))))>>)

\* the response built from the result with the status always 200
ResultResponse_m(result) ==
    PyDict(<<KV("statusCode", PyInt(200)),
             KV("headers", PyDict(<<KV("Content-Type", PyStr(Str("application/json"))),
                                    KV("Access-Control-Allow-Origin", PyStr(Str("*")))>>)),
             KV("body", PyStr(json_dumps(result)))>>)

\* the response built from the result of process_pdf_from_s3
ResultResponse(result) ==
    PyDict(<<KV("statusCode",
                PyInt(IF Truthy(Item(result, Str("success"))) THEN 200 ELSE 500)),
             KV("headers", PyDict(<<KV("Content-Type", PyStr(Str("application/json"))),
                                    KV("Access-Control-Allow-Origin", PyStr(Str("*")))>>)),
             KV("body", PyStr(json_dumps(result)))>>)

\* the response of the handler's except clause
ExceptResponse(exc) ==
    PyDict(<<KV("statusCode", PyInt(500)),
             KV("body", PyStr(json_dumps(ErrorDict(exc))))>>)

Left(exc) == [exc |-> exc, response |-> PyNone, calls |-> <<>>]
Respond(r) == [exc |-> NoExc, response |-> r, calls |-> <<>>]

\* the parameter object: the decoded body of an event that has a body field, else
\* the event itself
ReadBody(ev) ==
    LET has_body == In(Str("body"), ev)
    IN IF has_body.exc # NoExc THEN Raised(has_body.exc)
       ELSE IF ~has_body.v THEN Returned(ev)
       ELSE LET raw == Subscript(ev, Str("body"))
            IN IF raw.exc # NoExc THEN Raised(raw.exc) ELSE json_loads(raw.v)

\* the response built from what process_pdf_from_s3 returned, and the call made
Dispatched(bucket, key, mode, p) ==
    [exc |-> NoExc, response |-> ResultResponse(p.result),
     calls |-> <<[bucket |-> bucket, key |-> key, graphics_mode |-> mode,
                  result |-> p.result, extraction |-> p.extraction]>>]

\* the try block from the parameter object on: validation, then the processing
HandleBody(body, w) ==
    LET s3_path == DictGet(body, Str("s3_path"), PyNone)
        mode    == DictGet(body, Str("graphics_mode"), PyStr(Str("full")))
    IN IF s3_path.exc # NoExc THEN Left(s3_path.exc)
       ELSE IF ~Truthy(s3_path.v) THEN Respond(FormatError("Missing s3_path parameter"))
       ELSE IF mode.v \notin ValidModes THEN Respond(ModeError)
       ELSE IF s3_path.v.t # "str"
       THEN Left(Exc("AttributeError", "'" \o TypeName(s3_path.v)
                                       \o "' object has no attribute 'startswith'"))
       ELSE IF ~StartsWith(s3_path.v.s, Str("s3://"))
       THEN Respond(FormatError("Invalid S3 path format"))
       ELSE
       LET path_parts == SplitPath(s3_path.v.s)
       IN IF Len(path_parts) # 2 THEN Respond(FormatError("Invalid S3 path format"))
          ELSE Dispatched(path_parts[1], path_parts[2], mode.v,
                          process_pdf_from_s3(path_parts[1], path_parts[2], mode.v, w))

\* the body of the handler's try block: the response returned or the exception
\* raised, and the calls of process_pdf_from_s3 made
HandlerTry(ev, w) ==
    LET body == ReadBody(ev)
    IN IF body.exc # NoExc THEN Left(body.exc) ELSE HandleBody(body.v, w)

\* the handler without its except clause: an exception of the try block propagates
lambda_handler_m(ev, w) == HandlerTry(ev, w)

\* the except clause: every Exception of the try block is turned into the 500
\* response
Caught(t) ==
    IF t.exc # NoExc
    THEN [exc |-> NoExc, response |-> ExceptResponse(t.exc), calls |-> t.calls]
    ELSE t

\* lambda_handler(event, context)
lambda_handler(ev, w) == Caught(HandlerTry(ev, w))

-----------------------------------------------------------------------------
(* Inputs: documents                                                       *)

MaxPages == 2

Word(x0, y0, x1, y1, text, block_no, line_no, word_no) ==
    [x0 |-> x0, y0 |-> y0, x1 |-> x1, y1 |-> y1, text |-> text,
     block_no |-> block_no, line_no |-> line_no, word_no |-> word_no]

WGood  == Word(1, 1, 3, 2, <<"a", "b">>, 0, 0, 0)
WOut   == Word(-1, 1, 5, 2, <<"c", "d">>, 0, 0, 1)
WBlank == Word(1, 2, 3, 3, <<" ">>, 0, 1, 0)
WFlat  == Word(2, 3, 2, 4, <<"e">>, 1, 0, 0)

WordLists == {<<>>, <<WGood>>, <<WGood, WOut>>, <<WBlank, WGood, WFlat>>}

Pt(x, y) == [x |-> x, y |-> y]

\* a stroked line, with the width and the colors set
GLine == [keys |-> {"width", "color", "fill", "items"},
          width |-> PyFloat(2, 1),
          color |-> PyList(<<PyFloat(0, 1), PyFloat(1, 2), PyFloat(1, 1)>>),
          fill |-> PyNone,
          items |-> <<[op |-> "l", p |-> <<Pt(1, 1), Pt(4, 2)>>]>>]

\* a group whose only operation has a tag the classifier does not know
GOther == [keys |-> {"items"},
           width |-> PyNone, color |-> PyNone, fill |-> PyNone,
           items |-> <<[op |-> "xx", p |-> <<Pt(1, 1)>>]>>]

DrawingLists == {<<>>, <<GLine>>, <<GOther>>}

Page(width, height, words, drawings) ==
    [width |-> width, height |-> height, words |-> words, drawings |-> drawings]

PageKinds ==
    {Page(4, 4, ws, ds) : ws \in WordLists, ds \in DrawingLists}
      \cup {Page(0, 4, <<>>, ds) : ds \in DrawingLists}
      \cup {Page(0, 4, <<WGood>>, <<>>), Page(4, 0, <<WGood>>, <<GLine>>),
            Page(-4, 4, <<WGood>>, <<GLine>>)}

Docs == UNION {[1..n -> PageKinds] : n \in 0..MaxPages}

\* the chunk the markdown step returns for page i
Chunk(i) ==
    PyDict(<<KV("metadata", PyDict(<<KV("page", PyInt(i))>>)),
             KV("tables", PyList(<<PyDict(<<KV("rows", PyInt(i))>>)>>)),
             KV("text", PyStr(<<" ", "p", Digit(i), " ">>))>>)

\* what pymupdf4llm.to_markdown may answer for a document of n pages: an error,
\* or a list of chunks that need not have n entries
Markdowns(n) ==
    {Raised(Exc("ValueError", "markdown failed"))}
      \cup {Returned([i \in 1..m |-> Chunk(i)]) :
              m \in {k \in {n - 1, n, n + 1} : k >= 0}}

NotRun == [exc |-> NoExc, word_bounding_boxes |-> <<>>, structured_page_data |-> <<>>,
           drawn |-> 0]

-----------------------------------------------------------------------------
(* The extraction as a function of its inputs                              *)

InitExtract ==
    /\ pc = "start"
    /\ doc \in Docs
    /\ markdown \in Markdowns(Len(doc))
    /\ graphics_mode \in ValidModes
    /\ extracted = NotRun
    /\ event = PyNone /\ world = PyNone /\ response = PyNone /\ fault = NoExc
    /\ calls = <<>>
    /\ graphics_primitives = Returned(<<>>)

Extract ==
    /\ pc = "start"
    /\ pc' = "extracted"
    /\ extracted' = extract_text_with_bounding_boxes(doc, markdown, graphics_mode)
    /\ UNCHANGED <<event, world, response, fault, calls, doc, markdown, graphics_mode,
                   graphics_primitives>>

NextExtract == Extract

SpecExtract == InitExtract /\ [][NextExtract]_vars

-----------------------------------------------------------------------------
(* The graphics classifier as a function of its inputs                     *)

MaxOps == 3

\* one drawing operation of each tag the classifier knows, and one it does not
OpKinds ==
    {[op |-> "l", p |-> <<Pt(1, 1), Pt(4, 2)>>],
     [op |-> "c", p |-> <<Pt(0, 4), Pt(1, 2), Pt(2, 2), Pt(3, 0)>>],
     [op |-> "re", p |-> <<Pt(1, 2), Pt(3, 4)>>],
     [op |-> "qu", p |-> <<Pt(2, 1), Pt(4, 1), Pt(2, 3), Pt(4, 3)>>],
     [op |-> "xx", p |-> <<Pt(1, 1)>>]}

ItemLists == UNION {[1..n -> OpKinds] : n \in 0..MaxOps}

\* a group with a stroke width and a stroke color and no fill
Stroked(items) ==
    [keys |-> {"width", "color", "fill", "items"},
     width |-> PyFloat(2, 1),
     color |-> PyList(<<PyFloat(0, 1), PyFloat(1, 2), PyFloat(1, 1)>>),
     fill |-> PyNone,
     items |-> items]

\* a group with a fill color and neither width nor stroke color
Filled(items) ==
    [keys |-> {"fill", "items"},
     width |-> PyNone,
     color |-> PyNone,
     fill |-> PyList(<<PyFloat(1, 1), PyFloat(0, 1), PyFloat(0, 1)>>),
     items |-> items]

Groups == {Stroked(items) : items \in ItemLists} \cup {Filled(items) : items \in ItemLists}

\* what page.get_drawings() may return: no group, one group, or one group
\* followed by a second one of a few
Drawings ==
    {<<>>} \cup {<<g>> : g \in Groups}
      \cup {<<g, h>> : g \in Groups, h \in {GLine, GOther, Filled(<<>>)}}

InitGraphics ==
    /\ pc = "page"
    /\ \E ds \in Drawings, size \in {<<4, 4>>, <<0, 4>>, <<4, 0>>} :
         doc = <<Page(size[1], size[2], <<>>, ds)>>
    /\ graphics_primitives = Returned(<<>>)
    /\ markdown = Returned(<<>>) /\ graphics_mode = PyStr(Str("full"))
    /\ extracted = NotRun
    /\ event = PyNone /\ world = PyNone /\ response = PyNone /\ fault = NoExc
    /\ calls = <<>>

\* graphics_primitives = extract_all_graphics(page, page_width, page_height)
Classify ==
    /\ pc = "page"
    /\ pc' = "classified"
    /\ graphics_primitives' = extract_all_graphics(doc[1], doc[1].width, doc[1].height)
    /\ UNCHANGED <<event, world, response, fault, calls, doc, markdown, graphics_mode,
                   extracted>>

NextGraphics == Classify

SpecGraphics == InitGraphics /\ [][NextGraphics]_vars

-----------------------------------------------------------------------------
(* Inputs: events and worlds of one invocation                             *)

MaxLen == 3
MaxMessages == 2

Absent == [t |-> "absent", s |-> <<>>, n |-> 0, d |-> 1, e |-> <<>>]

PathRests == UNION {[1..n -> {"b", "/"}] : n \in 0..MaxLen}

Locators ==
    {PyStr(pre \o r) : pre \in {<<>>, Str("s3://"), Str("s3:/")}, r \in PathRests}
      \cup {PyNone, PyInt(7), Absent}

ModeValues == ValidModes \cup {PyStr(Str("vector")), PyNone, Absent}

\* the parameter object {"s3_path": .., "graphics_mode": ..}, a key left out when
\* its value is Absent
ParamDict(s3_path, mode) ==
    PyDict((IF s3_path = Absent THEN <<>> ELSE <<KV("s3_path", s3_path)>>)
             \o (IF mode = Absent THEN <<>> ELSE <<KV("graphics_mode", mode)>>))

Params == {ParamDict(l, m) : l \in Locators, m \in ModeValues}

GoodJob == ParamDict(PyStr(Str("s3://b/b")), Absent)

DirectEvents == Params

GatewayEvents ==
    {PyDict(<<KV("headers", PyDict(<<>>)), KV("body", PyStr(json_dumps(q)))>>) :
       q \in Params}

\* events with a body field and no headers field
BodyOnlyEvents ==
    {PyDict(<<KV("body", PyStr(json_dumps(q)))>>) : q \in Params}
      \cup {PyDict(GoodJob.e \o <<KV("body", b)>>) :
              b \in {PyStr(Str("hello")),
                     PyStr(json_dumps(ParamDict(PyStr(Str("s3://b/b")),
                                                PyStr(Str("none")))))}}

\* bodies that are no JSON text, or decode to something that is no object
BadBodies ==
    {PyStr(<<>>), PyStr(Str("hello")), PyStr(Str("null")), PyStr(Str("[]")),
     PyStr(Str("7")), PyNone, GoodJob,
     PyStr(Slice(json_dumps(GoodJob), 1, Len(json_dumps(GoodJob)) - 1))}

MalformedGatewayEvents ==
    {PyDict(<<KV("headers", PyDict(<<>>)), KV("body", b)>>) : b \in BadBodies}

\* the i-th record of an SQS batch
Message(i, body) ==
    PyDict(<<KV("messageId", PyStr(<<"m", Digit(i)>>)),
             KV("eventSource", PyStr(Str("aws:sqs"))),
             KV("body", body)>>)

MessageBodies ==
    {PyStr(json_dumps(GoodJob)), PyStr(json_dumps(ParamDict(Absent, Absent))),
     PyStr(Str("hello"))}

QueueEvents ==
    {PyDict(<<KV("Records", PyList([i \in 1..Len(bs) |-> Message(i, bs[i])]))>>) :
       bs \in UNION {[1..n -> MessageBodies] : n \in 1..MaxMessages}}

OddEvents == {PyNone, PyList(<<>>), PyList(<<PyStr(Str("body"))>>), PyStr(Str("body"))}

Events ==
    DirectEvents \cup GatewayEvents \cup BodyOnlyEvents \cup MalformedGatewayEvents
      \cup QueueEvents \cup OddEvents

World(fetch, open, pages, to_markdown) ==
    [fetch |-> fetch, open |-> open, doc |-> pages, to_markdown |-> to_markdown,
     file_size |-> 1024,
     metadata |-> PyDict(<<KV("title", PyStr(<<"T">>)), KV("author", PyNone)>>)]

DocOne == <<Page(4, 4, <<WGood>>, <<GLine>>)>>

Worlds ==
    {World(Exc("NoSuchKey", "The specified key does not exist"), NoExc, <<>>,
           Returned(<<>>)),
     World(NoExc, Exc("FileDataError", "Failed to open stream"), <<>>, Returned(<<>>)),
     World(NoExc, NoExc, <<>>, Returned(<<>>)),
     World(NoExc, NoExc, DocOne, Returned(<<Chunk(1)>>)),
     World(NoExc, NoExc, DocOne, Raised(Exc("ValueError", "markdown failed"))),
     World(NoExc, NoExc, <<Page(0, 4, <<WGood>>, <<>>)>>, Returned(<<Chunk(1)>>))}

-----------------------------------------------------------------------------
(* One invocation of the handler                                           *)

Init ==
    /\ pc = "idle"
    /\ event = PyNone /\ world = PyNone /\ response = PyNone /\ fault = NoExc
    /\ calls = <<>>
    /\ doc = <<>> /\ markdown = Returned(<<>>) /\ graphics_mode = PyStr(Str("full"))
    /\ extracted = NotRun
    /\ graphics_primitives = Returned(<<>>)

\* the runtime hands an event to lambda_handler and takes what it returns
Invoke ==
    /\ pc = "idle"
    /\ \E ev \in Events, w \in Worlds :
         \E r \in {lambda_handler(ev, w)} :
            /\ event' = ev
            /\ world' = w
            /\ response' = r.response
            /\ fault' = r.exc
            /\ calls' = r.calls
    /\ pc' = "done"
    /\ UNCHANGED <<doc, markdown, graphics_mode, extracted, graphics_primitives>>

Next == Invoke

Spec == Init /\ [][Next]_vars

-----------------------------------------------------------------------------
(* Properties of the handler, under Spec                                   *)

StatusCode(r) == Item(r, Str("statusCode")).n

Done == pc = "done"

\* the event is an object with the given field
HasField(ev, name) == ev.t = "dict" /\ HasKey(ev, Str(name))

\* an SQS batch: a Records list whose entries carry the queue's event-source marker
IsQueueBatch(ev) ==
    /\ HasField(ev, "Records")
    /\ LET rs == Item(ev, Str("Records"))
       IN /\ rs.t = "list"
          /\ rs.e # <<>>
          /\ \A i \in 1..Len(rs.e) :
               /\ rs.e[i].t = "dict"
               /\ Get(rs.e[i], Str("eventSource"), PyNone) = PyStr(Str("aws:sqs"))

\* C1: whatever the event and whatever fails, lambda_handler returns an object
\* with an integer statusCode and a body that is JSON text; no exception reaches
\* the caller.
C1_StructuredResponse ==
    Done =>
      /\ fault = NoExc
      /\ response.t = "dict"
      /\ HasKey(response, Str("statusCode"))
      /\ Item(response, Str("statusCode")).t = "int"
      /\ HasKey(response, Str("body"))
      /\ Item(response, Str("body")).t = "str"
      /\ json_loads(Item(response, Str("body"))).exc = NoExc

\* a gateway event whose body is no JSON text was answered, with a 500
C1_Witness ==
    /\ Done
    /\ HasField(event, "body")
    /\ json_loads(Item(event, Str("body"))).exc.type = "JSONDecodeError"
    /\ fault = NoExc
    /\ StatusCode(response) = 500

\* the event's shape leaves no doubt about where its parameters are: a direct
\* object without a body field, or a gateway object whose body decodes to an object
ClearShape(ev) ==
    /\ ev.t = "dict"
    /\ ~IsQueueBatch(ev)
    /\ HasKey(ev, Str("body")) =>
         /\ HasKey(ev, Str("headers"))
         /\ json_loads(Item(ev, Str("body"))).exc = NoExc
         /\ json_loads(Item(ev, Str("body"))).v.t = "dict"

RequestParams(ev) ==
    IF HasKey(ev, Str("body")) THEN json_loads(Item(ev, Str("body"))).v ELSE ev

\* the locator is missing or empty, or a text without the s3:// prefix or without
\* a key after the bucket
BadLocator(q) ==
    LET l == Get(q, Str("s3_path"), PyNone)
    IN \/ l.t = "NoneType"
       \/ /\ l.t = "str"
          /\ \/ l.s = <<>>
             \/ ~StartsWith(l.s, Str("s3://"))
             \/ Len(SplitPath(l.s)) < 2
             \/ SplitPath(l.s)[2] = <<>>

BadMode(q) == Get(q, Str("graphics_mode"), PyStr(Str("full"))) \notin ValidModes

\* C2: an event whose locator is missing, empty, without the s3:// prefix or
\* without a key part, or whose graphics_mode is outside the closed set, gets a
\* 400 and process_pdf_from_s3 is not called.
C2_ValidationBeforeProcessing ==
    (Done /\ ClearShape(event)
       /\ (BadLocator(RequestParams(event)) \/ BadMode(RequestParams(event))))
      => (StatusCode(response) = 400 /\ calls = <<>>)

\* the event with one field removed
Without(ev, name) ==
    PyDict(SelectSeq(ev.e, LAMBDA kv : kv.k # Str(name)))

\* C3: an event with a body field and no headers field is a direct event: its
\* parameters are read from the event itself, so it is answered as the same
\* event without the body field is.
C3_GatewayNeedsBodyAndHeaders ==
    (Done /\ HasField(event, "body") /\ ~HasField(event, "headers")
       /\ ~IsQueueBatch(event))
      => response = lambda_handler(Without(event, "body"), world).response

\* C4: a gateway event whose body is a text that is no JSON, or decodes to
\* something that is no object, gets a client-error status and no extraction is
\* attempted.
C4_UnparsableBodyIsClientError ==
    (Done /\ HasField(event, "body") /\ HasField(event, "headers")
       /\ Item(event, Str("body")).t = "str"
       /\ LET b == json_loads(Item(event, Str("body")))
          IN b.exc # NoExc \/ b.v.t # "dict")
      => (StatusCode(response) \in 400..499 /\ calls = <<>>)

\* processing the message's job on its own fails: the body is no JSON text, or
\* the job does not end in success
MessageRaises(m, w) ==
    LET b == json_loads(Get(m, Str("body"), PyNone))
    IN b.exc # NoExc \/ StatusCode(lambda_handler(b.v, w).response) # 200

\* the item identifiers of a batch outcome
FailureIds(r) ==
    LET l == Get(r, Str("batchItemFailures"), PyList(<<>>))
    IN [i \in 1..Len(l.e) |-> Get(l.e[i], Str("itemIdentifier"), PyNone)]

\* C10: for a queue batch of N messages of which K raise, every message is
\* attempted and the failure list of the answer has length K and names exactly
\* the K failed messages.
C10_BatchFailureList ==
    (Done /\ IsQueueBatch(event)) =>
      LET rs     == Item(event, Str("Records")).e
          failed == {i \in 1..Len(rs) : MessageRaises(rs[i], world)}
          ids    == FailureIds(response)
      IN /\ HasKey(response, Str("batchItemFailures"))
         /\ Len(ids) = Cardinality(failed)
         /\ {ids[i] : i \in 1..Len(ids)} = {Item(rs[i], Str("messageId")) : i \in failed}
         /\ Len(calls) =
              Cardinality({i \in 1..Len(rs) :
                             lambda_handler(json_loads(Item(rs[i], Str("body"))).v,
                                            world).calls # <<>>})

\* the object the body of a response decodes to
BodyOf(r) == json_loads(Item(r, Str("body"))).v

\* C11: every response of lambda_handler to an event object, on every path,
\* has a statusCode, a headers field and a body that decodes to an object with a
\* boolean success field.
C11_UniformEnvelope ==
    (Done /\ event.t = "dict") =>
      /\ HasField(response, "statusCode")
      /\ HasField(response, "headers")
      /\ HasField(response, "body")
      /\ HasField(BodyOf(response), "success")
      /\ Item(BodyOf(response), Str("success")).t = "bool"

\* process_pdf_from_s3 was called and its fetch, open or extraction step failed
StepFailed ==
    /\ calls # <<>>
    /\ \/ get_object(calls[1].bucket, calls[1].key, world) # NoExc
       \/ world.open # NoExc
       \/ calls[1].extraction.exc # NoExc

\* C12: the status is 200 exactly when process_pdf_from_s3 ran and its result
\* has success = true; when the fetch, the open or the extraction fails the
\* status is 500 and the body carries success = false, error and error_type.
C12_StatusFollowsResult ==
    Done =>
      /\ StatusCode(response) = 200
           <=> (calls # <<>> /\ Item(calls[1].result, Str("success")) = PyBool(TRUE))
      /\ StepFailed =>
           /\ StatusCode(response) = 500
           /\ HasField(BodyOf(response), "success")
           /\ Item(BodyOf(response), Str("success")) = PyBool(FALSE)
           /\ HasField(BodyOf(response), "error")
           /\ HasField(BodyOf(response), "error_type")

\* the extraction step of a call divided by a zero page width and the handler
\* answered 500 with that error type
C12_Witness ==
    /\ Done
    /\ calls # <<>>
    /\ calls[1].extraction.ran
    /\ calls[1].extraction.exc.type = "ZeroDivisionError"
    /\ StatusCode(response) = 500
    /\ Item(BodyOf(response), Str("error_type")) = PyStr(Str("ZeroDivisionError"))

-----------------------------------------------------------------------------
(* Properties of the extraction, under SpecExtract                         *)

Extracted == pc = "extracted"

RecognizedOps == {"l", "c", "re", "qu"}

\* the drawing operations of a page whose tag the classifier knows
RecognizedItems(page) ==
    UNION {{<<g, k>> : k \in {j \in 1..Len(GroupGet(page.drawings[g], "items", <<>>)) :
                                GroupGet(page.drawings[g], "items", <<>>)[j].op
                                  \in RecognizedOps}} :
             g \in 1..Len(page.drawings)}

ZeroSized(page) == page.width = 0 \/ page.height = 0

Positive(page) == page.width > 0 /\ page.height > 0

\* C5 as amended: in mode graphics_only the extraction returns no word box and
\* one page record per page, in page order, each with empty tables, words and
\* text and with one primitive per recognized drawing operation of its page (so
\* non-empty graphics exactly when the page has such an operation); when a page
\* of zero width or height has such an operation it raises ZeroDivisionError.
C5_GraphicsOnly ==
    (Extracted /\ graphics_mode = PyStr(Str("graphics_only"))) =>
      IF \E i \in 1..Len(doc) : ZeroSized(doc[i]) /\ RecognizedItems(doc[i]) # {}
      THEN extracted.exc.type = "ZeroDivisionError"
      ELSE /\ extracted.exc = NoExc
           /\ extracted.word_bounding_boxes = <<>>
           /\ Len(extracted.structured_page_data) = Len(doc)
           /\ \A i \in 1..Len(doc) :
                LET r == extracted.structured_page_data[i]
                IN /\ r.tables = PyList(<<>>)
                   /\ r.words = <<>>
                   /\ r.text = <<>>
                   /\ Len(r.graphics) = Cardinality(RecognizedItems(doc[i]))

\* a two-page document in mode graphics_only: one page's drawings are all
\* unrecognized and its record has no graphics, the other's record has some
C5_Witness ==
    /\ Extracted
    /\ graphics_mode = PyStr(Str("graphics_only"))
    /\ extracted.exc = NoExc
    /\ Len(doc) = 2
    /\ doc[1].drawings # <<>> /\ extracted.structured_page_data[1].graphics = <<>>
    /\ extracted.structured_page_data[2].graphics # <<>>

\* C5 as stated: in mode graphics_only the extraction returns no word box and one
\* page record per page, each with empty tables, words and text, and with
\* non-empty graphics whenever the page has drawings.
C5_Original ==
    (Extracted /\ graphics_mode = PyStr(Str("graphics_only"))) =>
      /\ extracted.exc = NoExc
      /\ extracted.word_bounding_boxes = <<>>
      /\ Len(extracted.structured_page_data) = Len(doc)
      /\ \A i \in 1..Len(doc) :
           LET r == extracted.structured_page_data[i]
           IN /\ r.tables = PyList(<<>>)
              /\ r.words = <<>>
              /\ r.text = <<>>
              /\ doc[i].drawings # <<>> => r.graphics # <<>>

\* C6: in mode none no page record carries graphics and get_drawings is never
\* called, whatever the pages draw.
C6_NoneModeNoGraphics ==
    (Extracted /\ graphics_mode = PyStr(Str("none"))) =>
      /\ extracted.drawn = 0
      /\ \A i \in 1..Len(extracted.structured_page_data) :
           extracted.structured_page_data[i].graphics = <<>>

\* mode none returned page records for a document that has a drawn line
C6_Witness ==
    /\ Extracted
    /\ graphics_mode = PyStr(Str("none"))
    /\ extracted.exc = NoExc
    /\ extracted.structured_page_data # <<>>
    /\ \E i \in 1..Len(doc) : RecognizedItems(doc[i]) # {}

\* a <= b for two floats
Leq(a, b) == a.n * b.d <= b.n * a.d

InUnit(a) == Leq(PyFloat(0, 1), a) /\ Leq(a, PyFloat(1, 1))

\* C7: every word box of a page of positive width and height has a normalized
\* rectangle with 0 <= x0 <= x1 <= 1 and 0 <= y0 <= y1 <= 1.
C7_NormalizedClamped ==
    Extracted =>
      \A k \in 1..Len(extracted.word_bounding_boxes) :
        LET wb == extracted.word_bounding_boxes[k]
            x0 == Item(wb.bbox, Str("x0"))
            y0 == Item(wb.bbox, Str("y0"))
            x1 == Item(wb.bbox, Str("x1"))
            y1 == Item(wb.bbox, Str("y1"))
        IN Positive(doc[wb.page]) =>
             /\ InUnit(x0) /\ InUnit(x1) /\ Leq(x0, x1)
             /\ InUnit(y0) /\ InUnit(y1) /\ Leq(y0, y1)

\* the token has text left after trimming and a rectangle with x0 < x1, y0 < y1
SoundToken(t) == Strip(t.text) # <<>> /\ t.x0 < t.x1 /\ t.y0 < t.y1

\* C8: no word box has text that is empty after trimming or a degenerate
\* absolute rectangle, and every other token of the page source is emitted with
\* its block, line and word ordinals.
C8_NoBlankOrDegenerateWords ==
    Extracted =>
      /\ \A k \in 1..Len(extracted.word_bounding_boxes) :
           LET wb == extracted.word_bounding_boxes[k]
           IN /\ Strip(wb.text) # <<>>
              /\ Leq(Item(wb.absolute_bbox, Str("x0")), Item(wb.absolute_bbox, Str("x1")))
              /\ Item(wb.absolute_bbox, Str("x0")) # Item(wb.absolute_bbox, Str("x1"))
              /\ Leq(Item(wb.absolute_bbox, Str("y0")), Item(wb.absolute_bbox, Str("y1")))
              /\ Item(wb.absolute_bbox, Str("y0")) # Item(wb.absolute_bbox, Str("y1"))
      /\ (extracted.exc = NoExc /\ graphics_mode # PyStr(Str("graphics_only"))) =>
           \A i \in 1..Len(doc) : \A j \in 1..Len(doc[i].words) :
             LET t == doc[i].words[j]
             IN (SoundToken(t) /\ Positive(doc[i])) =>
                  \E k \in 1..Len(extracted.word_bounding_boxes) :
                    LET wb == extracted.word_bounding_boxes[k]
                    IN /\ wb.page = i /\ wb.text = t.text
                       /\ wb.block_no = t.block_no /\ wb.line_no = t.line_no
                       /\ wb.word_no = t.word_no

\* C9: a page of non-positive width or height is skipped: its dimensions divide
\* nothing, it gives no word box, no graphics and no page record, and the other
\* pages' outputs are returned.
C9_NonPositivePagesSkipped ==
    Extracted =>
      /\ extracted.exc.type # "ZeroDivisionError"
      /\ \A k \in 1..Len(extracted.word_bounding_boxes) :
           Positive(doc[extracted.word_bounding_boxes[k].page])
      /\ graphics_mode = PyStr(Str("graphics_only")) =>
           Len(extracted.structured_page_data)
             = Cardinality({i \in 1..Len(doc) : Positive(doc[i])})
      /\ (graphics_mode # PyStr(Str("graphics_only")) /\ markdown.exc = NoExc) =>
           \A i \in 1..Len(doc) : \A j \in 1..Len(doc[i].words) :
             Positive(doc[i]) =>
               \E k \in 1..Len(extracted.word_bounding_boxes) :
                 /\ extracted.word_bounding_boxes[k].page = i
                 /\ extracted.word_bounding_boxes[k].text = doc[i].words[j].text

\* the primitives classified from page i of the document
PageGraphics(i) == extract_all_graphics(doc[i], doc[i].width, doc[i].height).v

\* C13: in mode full, whatever the number of chunks of the markdown step, the
\* graphics of every page that has some are on the page record of that index,
\* and every page record of a page's index carries exactly that page's graphics.
C13_GraphicsOnOwnPage ==
    (Extracted /\ graphics_mode = PyStr(Str("full")) /\ extracted.exc = NoExc) =>
      \A i \in 1..Len(doc) :
        /\ PageGraphics(i) # <<>> => i <= Len(extracted.structured_page_data)
        /\ i <= Len(extracted.structured_page_data) =>
             extracted.structured_page_data[i].graphics = PageGraphics(i)

-----------------------------------------------------------------------------
(* Properties of the graphics classifier, under SpecGraphics               *)

Classified == pc = "classified"

RECURSIVE RecognizedInOrder(_, _)
\* the recognized operations of the groups from g on, as (group, position) in
\* the order of the groups and of the operations within each group
RecognizedInOrder(ds, g) ==
    IF g > Len(ds) THEN <<>>
    ELSE LET items == GroupGet(ds[g], "items", <<>>)
             ks    == SelectSeq([k \in 1..Len(items) |-> k],
                                LAMBDA k : items[k].op \in RecognizedOps)
         IN [n \in 1..Len(ks) |-> [g |-> g, k |-> ks[n]]] \o RecognizedInOrder(ds, g + 1)

\* the type a primitive carries for a recognized tag
TypeOf(op) ==
    CASE op = "l" -> Str("line")
      [] op = "c" -> Str("curve")
      [] op = "re" -> Str("rect")
      [] op = "qu" -> Str("quad")

\* the absolute coordinates of the first point of a primitive
FirstPoint(prim) ==
    LET at == CASE Item(prim, Str("type")).s = Str("rect") -> Item(prim, Str("bbox"))
                [] Item(prim, Str("type")).s = Str("quad") -> Item(prim, Str("points")).e[1]
                [] OTHER -> Item(prim, Str("p1"))
    IN IF Item(prim, Str("type")).s = Str("rect")
       THEN <<Item(at, Str("x0")), Item(at, Str("y0"))>>
       ELSE <<Item(at, Str("x")), Item(at, Str("y"))>>

\* the primitive carries the stroke width (0 when there is none), the stroke
\* color and the fill color of group d
CarriesStyleOf(prim, d) ==
    /\ Item(prim, Str("stroke_width"))
         = (IF "width" \in d.keys /\ Truthy(d.width) THEN d.width ELSE PyFloat(0, 1))
    /\ Item(prim, Str("stroke_color"))
         = (IF "color" \in d.keys /\ Truthy(d.color) THEN d.color ELSE PyNone)
    /\ Item(prim, Str("fill_color"))
         = (IF "fill" \in d.keys /\ Truthy(d.fill) THEN d.fill ELSE PyNone)

\* the groups with every operation of an unrecognized tag taken out
WithoutUnrecognized(ds) ==
    [g \in 1..Len(ds) |->
       [ds[g] EXCEPT !.items = SelectSeq(@, LAMBDA it : it.op \in RecognizedOps)]]

\* the classifier returned one primitive per recognized operation, in order, each
\* of its operation's type and first point and with its own group's style, and
\* the unrecognized operations changed nothing
OnePerRecognizedOp ==
    LET ds == doc[1].drawings
        R  == RecognizedInOrder(ds, 1)
        v  == graphics_primitives.v
    IN /\ graphics_primitives.exc = NoExc
       /\ Len(v) = Len(R)
       /\ \A n \in 1..Len(R) :
            LET it == ds[R[n].g].items[R[n].k]
            IN /\ Item(v[n], Str("type")) = PyStr(TypeOf(it.op))
               /\ FirstPoint(v[n]) = <<PyFloat(it.p[1].x, 1), PyFloat(it.p[1].y, 1)>>
               /\ CarriesStyleOf(v[n], ds[R[n].g])
       /\ graphics_primitives
            = extract_all_graphics(Page(doc[1].width, doc[1].height, <<>>,
                                        WithoutUnrecognized(ds)),
                                   doc[1].width, doc[1].height)

====
